---- MODULE Spec2Model ----
(***************************************************************************)
(* A model of yap, a terminal pager (brennie/yap).                         *)
(*                                                                         *)
(*   src/src/ui/document.rs  DocumentView<D> (viewport) and FileDocument   *)
(*   src/src/ui.rs           ui() event loop and UiState (controller)      *)
(*   src/src/ui/vec2.rs      Vec2                                          *)
(*                                                                         *)
(* A line of text is a sequence of characters (codepoints); each character *)
(* has a UTF-8 width, so byte offsets and character offsets differ.        *)
(* usize arithmetic is modelled modulo UsizeModulus: every genuine         *)
(* quantity of the model (lengths, offsets, terminal sizes) is far below   *)
(* it, so a value is either "small" or "within a few units of the          *)
(* modulus", exactly as with the 64-bit modulus of the build.              *)
(*                                                                         *)
(* CHOOSE r \in {e(x) : x \in {f}} : TRUE is LET x == f IN e(x) with f       *)
(* evaluated once.                                                         *)
(***************************************************************************)
EXTENDS Integers, Sequences, FiniteSets, TLC

VARIABLES
    build,      \* "debug" (overflow checks: a panic) or "release" (wrap around)
    pc,         \* position of ui(): init, loop, finalize, done, failed, panicked
    ui,         \* the UiState: document, max_line_len, offset, should_exit, size
    tty,        \* the terminal's modes: raw, alt (alternate screen), hidden (cursor)
    input,      \* the line source: "open" or "eof"
    last_event, \* the item ui() handled last
    drawn,      \* whether the last handled item queued or flushed any output
    view,       \* a DocumentView<FileDocument>: document, offset, size
    reported,   \* the last push_line: its text, the index it returned, and what
                \* queue_line_if_visible returned for it
    screen,     \* the terminal's rows, each the characters shown on it
    cursor,     \* the terminal's cursor: row, col (0-based)
    ready       \* what the two streams of select! hold ready: event, line

vars == <<build, pc, ui, tty, input, last_event, drawn, view, reported, screen, cursor,
          ready>>

----------------------------------------------------------------------------
\* Bounds of the model.

\* Lines the input stream delivers at most.
MaxLines == 3
\* Terminal sizes range over (0..MaxCols) x (0..MaxRows).
MaxCols == 2
MaxRows == 4
\* Longest line of the column-slicing specification.
MaxLineLen == 6
\* Widest viewport of the column-slicing specification.
MaxSliceCols == 3
\* Largest viewport height of the paging specification.
MaxPageRows == 12

\* The page-clamp scenario: a document of PageDocLen lines in a viewport of
\* PageRows rows.
PageDocLen == 100
PageRows == 10

----------------------------------------------------------------------------
\* Text.

\* The characters of the column-slicing specification ("E2" is two bytes long,
\* "U3" three).
Chars == {"a", "E2"}

\* The number of bytes of a character's UTF-8 encoding.
Utf8Len(c) == CASE c = "E2" -> 2 [] c = "U3" -> 3 [] OTHER -> 1

Min(a, b) == IF a < b THEN a ELSE b
Max(a, b) == IF a > b THEN a ELSE b

Take(s, n) == SubSeq(s, 1, Min(n, Len(s)))

RECURSIVE Blanks(_)
Blanks(n) == IF n <= 0 THEN <<>> ELSE <<" ">> \o Blanks(n - 1)

\* All sequences over S of length at most n.
RECURSIVE SeqsUpTo(_, _)
SeqsUpTo(S, n) ==
    IF n = 0 THEN {<<>>}
    ELSE LET shorter == SeqsUpTo(S, n - 1)
         IN  shorter \cup {Append(s, c) : s \in {t \in shorter : Len(t) = n - 1}, c \in S}

\* The bytes of a line: each byte is <<character, position in its encoding>>.
RECURSIVE Utf8(_)
Utf8(line) ==
    IF line = <<>> THEN <<>>
    ELSE [k \in 1..Utf8Len(Head(line)) |-> <<Head(line), k>>] \o Utf8(Tail(line))

\* str::len(): the length in bytes.
ByteLen(line) == Len(Utf8(line))

\* str::chars().count(): the length in characters.
CharCount(line) == Len(line)

\* str::char_indices().map(|(idx, _)| idx): the byte offset of every character.
RECURSIVE ByteOffset(_, _)
ByteOffset(line, i) == IF i <= 1 THEN 0 ELSE ByteOffset(line, i - 1) + Utf8Len(line[i - 1])
char_indices(line) == [i \in 1..Len(line) |-> ByteOffset(line, i)]

\* Iterator::nth(n) on an iterator that has consumed `pos` items of `items`:
\* the item n places on, consuming it and all before it; None exhausts the iterator.
nth(items, pos, n) ==
    IF pos + n + 1 <= Len(items)
    THEN [some |-> TRUE, val |-> items[pos + n + 1], pos |-> pos + n + 1]
    ELSE [some |-> FALSE, val |-> 0, pos |-> Len(items)]

\* &line[start..end]: the characters of the byte range, and whether both ends
\* are character boundaries (the index panics when one is not).
IsCharBoundary(line, b) == b = ByteLen(line) \/ \E i \in 1..Len(line) : ByteOffset(line, i) = b
StrSlice(line, start, end) ==
    LET bytes == SubSeq(Utf8(line), start + 1, end)
        firsts == SelectSeq(bytes, LAMBDA b : b[2] = 1)
    IN  [ok |-> start <= end /\ end <= ByteLen(line)
                /\ IsCharBoundary(line, start) /\ IsCharBoundary(line, end),
         chars |-> [i \in 1..Len(firsts) |-> firsts[i][1]]]

----------------------------------------------------------------------------
\* usize arithmetic.

UsizeModulus == 2 ^ 30

\* a - b in usize: the wrapped value, and whether it overflowed.
usize_sub(a, b) == [v |-> (a - b) % UsizeModulus, ovf |-> a < b]
\* a + b in usize.
usize_add(a, b) == [v |-> (a + b) % UsizeModulus, ovf |-> a + b >= UsizeModulus]

\* `as u16` of a usize.
as_u16(a) == a % 65536

----------------------------------------------------------------------------
\* The terminal: t = [screen, cursor]. A row holds the characters shown on it,
\* without trailing blanks; the terminal has Len(screen) rows.

RECURSIVE Trim(_)
Trim(row) ==
    IF row # <<>> /\ row[Len(row)] = " " THEN Trim(SubSeq(row, 1, Len(row) - 1)) ELSE row

BlankScreen(rows) == [r \in 1..rows |-> <<>>]

\* cursor::MoveTo(col, row): the terminal keeps the cursor on the screen.
MoveTo(t, col, row) ==
    [t EXCEPT !.cursor = [row |-> Max(0, Min(row, Len(t.screen) - 1)), col |-> col]]

\* style::Print(text) at the cursor: overwrites the cells it covers.
PrintAt(t, text) ==
    LET r == t.cursor.row + 1
        c == t.cursor.col
    IN  IF r \notin DOMAIN t.screen \/ text = <<>> THEN t
        ELSE CHOOSE q \in
                {[screen |-> [t.screen EXCEPT ![r] = Trim(new)],
                  cursor |-> [row |-> t.cursor.row, col |-> c + Len(text)]] :
                    new \in {Take(old, c) \o Blanks(c - Len(old)) \o text
                                \o SubSeq(old, c + Len(text) + 1, Len(old)) :
                                old \in {t.screen[r]}}} : TRUE

\* terminal::Clear(ClearType::UntilNewLine): blanks the row from the cursor on.
ClearUntilNewLine(t) ==
    LET r == t.cursor.row + 1
    IN  IF r \notin DOMAIN t.screen THEN t
        ELSE [t EXCEPT !.screen[r] = Trim(Take(@, t.cursor.col))]

\* cursor::MoveToNextLine(1): column 0 of the next row, staying on the screen.
MoveToNextLine(t) ==
    [t EXCEPT !.cursor = [row |-> Max(0, Min(t.cursor.row + 1, Len(t.screen) - 1)),
                          col |-> 0]]

\* terminal::Clear(ClearType::All).
ClearAll(t) == [t EXCEPT !.screen = BlankScreen(Len(t.screen))]

----------------------------------------------------------------------------
\* FileDocument (document.rs): doc = [lines, max_line_len].

FileDocument_new == [lines |-> <<>>, max_line_len |-> 0]

\* push_line that measures the line in bytes.
push_line_in_bytes(doc, line) ==
    [doc |-> [lines |-> Append(doc.lines, line),
              max_line_len |-> Max(doc.max_line_len, ByteLen(line))],
     index |-> Len(doc.lines)]

\* FileDocument::push_line: the document after the push, and the index returned.
push_line(doc, line) ==
    [doc |-> [lines |-> Append(doc.lines, line),
              max_line_len |-> Max(doc.max_line_len, CharCount(line))],
     index |-> Len(doc.lines)]

doc_len(doc) == Len(doc.lines)
max_line_len(doc) == doc.max_line_len

----------------------------------------------------------------------------
\* DocumentView (document.rs): v = [document, offset, size]. A navigation
\* operation yields the view after it and whether it redraws.

Vec2(x, y) == [x |-> x, y |-> y]

DocumentView_new(document, size) ==
    [document |-> document, offset |-> Vec2(0, 0), size |-> size]

resize(v, new_size) == [v EXCEPT !.size = new_size]

pan_left(v) ==
    IF v.offset.x > 0
    THEN [v |-> [v EXCEPT !.offset.x = @ - 1], redraw |-> TRUE]
    ELSE [v |-> v, redraw |-> FALSE]

\* dv_scroll_down with an off-by-one guard (>= for >).
dv_scroll_down_off_by_one(v) ==
    IF doc_len(v.document) >= v.offset.y + v.size.y
    THEN [v |-> [v EXCEPT !.offset.y = @ + 1], redraw |-> TRUE]
    ELSE [v |-> v, redraw |-> FALSE]

dv_scroll_down(v) ==
    IF doc_len(v.document) > v.offset.y + v.size.y
    THEN [v |-> [v EXCEPT !.offset.y = @ + 1], redraw |-> TRUE]
    ELSE [v |-> v, redraw |-> FALSE]

dv_scroll_up(v) ==
    IF v.offset.y > 0
    THEN [v |-> [v EXCEPT !.offset.y = @ - 1], redraw |-> TRUE]
    ELSE [v |-> v, redraw |-> FALSE]

pan_right(v) ==
    IF max_line_len(v.document) > v.offset.x + v.size.x
    THEN [v |-> [v EXCEPT !.offset.x = @ + 1], redraw |-> TRUE]
    ELSE [v |-> v, redraw |-> FALSE]

prev_page(v) ==
    LET page_size == Min(v.size.y \div 2, v.offset.y)
    IN  IF v.offset.y > 0
        THEN [v |-> [v EXCEPT !.offset.y = @ - page_size], redraw |-> TRUE]
        ELSE [v |-> v, redraw |-> FALSE]

\* next_page whose full-page test forgets the height of the viewport.
next_page_past_end(v) ==
    LET page_size == v.size.y \div 2
    IN  IF doc_len(v.document) >= v.offset.y + page_size
        THEN [v |-> [v EXCEPT !.offset.y = @ + page_size], redraw |-> TRUE]
        ELSE [v |-> v, redraw |-> FALSE]

next_page(v) ==
    LET page_size == v.size.y \div 2
    IN  IF doc_len(v.document) >= v.size.y + v.offset.y + page_size
        THEN [v |-> [v EXCEPT !.offset.y = @ + page_size], redraw |-> TRUE]
        ELSE IF doc_len(v.document) > v.size.y + v.offset.y
        THEN [v |-> [v EXCEPT !.offset.y = usize_sub(doc_len(v.document), v.size.y).v],
              redraw |-> TRUE]
        ELSE [v |-> v, redraw |-> FALSE]

\* The text queue_line prints for `line` when the view is panned to column
\* offset_x and the second nth() is given `cols`: [short, printed, ok], where
\* short says that no character exists at offset_x (only the row is cleared)
\* and ok that the slice did not panic.
line_slice(line, offset_x, cols) ==
    CHOOSE r \in
       {IF ~first.some THEN [short |-> TRUE, printed |-> <<>>, ok |-> TRUE]
        ELSE CHOOSE q \in
                {[short |-> FALSE, printed |-> cut.chars, ok |-> cut.ok] :
                    cut \in {StrSlice(line, first.val,
                                      IF second.some THEN second.val ELSE ByteLen(line)) :
                                second \in {nth(char_indices(line), first.pos, cols)}}} : TRUE
          : first \in {nth(char_indices(line), 0, offset_x)}} : TRUE

\* queue_out that returns early on a short line, without clearing the row.
queue_out_no_clear(t, slice) ==
    IF slice.short THEN MoveToNextLine(t)
    ELSE MoveToNextLine(ClearUntilNewLine(PrintAt(t, slice.printed)))

\* What queue_line queues: Print (unless short), Clear(UntilNewLine), MoveToNextLine(1).
queue_out(t, slice) ==
    CHOOSE r \in {MoveToNextLine(cleared) :
                     cleared \in {ClearUntilNewLine(printed) :
                        printed \in {IF slice.short THEN t
                                      ELSE PrintAt(t, slice.printed)}}} : TRUE

\* DocumentView::queue_line: [t, ok]; indexing past the document panics.
dv_queue_line(v, t, index) ==
    IF index + 1 \notin DOMAIN v.document.lines THEN [t |-> t, ok |-> FALSE]
    ELSE CHOOSE r \in {[t |-> queue_out(t, slice), ok |-> slice.ok] :
                          slice \in {line_slice(v.document.lines[index + 1],
                                                v.offset.x, v.size.x)}} : TRUE

\* Range<usize>: lo..hi, with contains().
Range(lo, hi) == [lo |-> lo, hi |-> hi]
range_contains(r, i) == r.lo <= i /\ i < r.hi
range_len(r) == IF r.hi > r.lo THEN r.hi - r.lo ELSE 0

visible_lines(v) ==
    Range(v.offset.y, Min(v.offset.y + v.size.y, doc_len(v.document)))

visible_pane_rows(v) == Range(v.offset.y, v.offset.y + v.size.y)

\* The loop of redraw: queue_line for y = lo, lo + 1, ... below hi.
RECURSIVE dv_draw_from(_, _, _, _)
dv_draw_from(v, t, y, hi) ==
    IF y >= hi THEN [t |-> t, ok |-> TRUE]
    ELSE CHOOSE r \in {IF ~one.ok THEN one ELSE dv_draw_from(v, one.t, y + 1, hi) :
                          one \in {dv_queue_line(v, t, y)}} : TRUE

\* DocumentView::redraw.
dv_redraw(v, t) ==
    LET r == visible_lines(v)
    IN  dv_draw_from(v, MoveTo(t, 0, 0), r.lo, r.hi)

\* DocumentView::queue_line_if_visible: [t, ok, visible].
queue_line_if_visible(v, t, index) ==
    IF range_contains(visible_pane_rows(v), index)
    THEN CHOOSE r \in {[t |-> one.t, ok |-> one.ok, visible |-> TRUE] :
                          one \in {dv_queue_line(v, t, index)}} : TRUE
    ELSE [t |-> t, ok |-> TRUE, visible |-> FALSE]

----------------------------------------------------------------------------
\* UiState (ui.rs): u = [document, max_line_len, offset, should_exit, size].
\* b is the build: in "debug" an overflowing usize operation panics, in
\* "release" it wraps. A handler yields [u, t, wrote, panic]: the state and
\* the terminal after it, whether it queued any output (before any panic),
\* and whether it panicked.

Builds == {"debug", "release"}

overflows(b, r) == b = "debug" /\ r.ovf

UiState_new(size) ==
    [document |-> <<>>, max_line_len |-> 0, offset |-> Vec2(0, 0),
     should_exit |-> FALSE, size |-> size]

\* The status bar's text, kept as one cell.
StatusText == <<"[yap] q to exit, jk to scroll">>

\* 0..self.size.y - 2
document_pane_rows(u) ==
    LET hi == usize_sub(u.size.y, 2) IN [r |-> Range(0, hi.v), ovf |-> hi.ovf]

\* 0..self.size.x - 1
document_pane_cols(u) ==
    LET hi == usize_sub(u.size.x, 1) IN [r |-> Range(0, hi.v), ovf |-> hi.ovf]

\* self.offset.y..min(self.offset.y + self.size.y - 2, self.document.len())
visible_document_rows(u) ==
    LET sum == usize_add(u.offset.y, u.size.y)
        hi == usize_sub(sum.v, 2)
    IN  [r |-> Range(u.offset.y, Min(hi.v, Len(u.document))), ovf |-> sum.ovf \/ hi.ovf]

\* UiState::queue_line: [t, panic].
ui_queue_line(u, t, b, index) ==
    IF index + 1 \notin DOMAIN u.document THEN [t |-> t, panic |-> TRUE]
    ELSE LET line == u.document[index + 1]
             first == nth(char_indices(line), 0, u.offset.x)
             cols == document_pane_cols(u)
         IN  IF ~first.some
             THEN [t |-> queue_out(t, [short |-> TRUE, printed |-> <<>>, ok |-> TRUE]),
                   panic |-> FALSE]
             ELSE IF overflows(b, cols) THEN [t |-> t, panic |-> TRUE]
             ELSE CHOOSE r \in {[t |-> queue_out(t, slice), panic |-> ~slice.ok] :
                                   slice \in {line_slice(line, u.offset.x,
                                                         range_len(cols.r))}} : TRUE

\* The loop of redraw_document.
RECURSIVE ui_draw_from(_, _, _, _, _)
ui_draw_from(u, t, b, y, hi) ==
    IF y >= hi THEN [t |-> t, panic |-> FALSE]
    ELSE CHOOSE r \in {IF one.panic THEN one ELSE ui_draw_from(u, one.t, b, y + 1, hi) :
                          one \in {ui_queue_line(u, t, b, y)}} : TRUE

\* UiState::redraw_document: [t, panic]; it always queues the MoveTo first.
redraw_document(u, t, b) ==
    CHOOSE r \in
       {IF overflows(b, rows) THEN [t |-> MoveTo(t, 0, 0), panic |-> TRUE]
        ELSE CHOOSE q \in {ui_draw_from(u, home, b, rows.r.lo, rows.r.hi) :
                              home \in {MoveTo(t, 0, 0)}} : TRUE
          : rows \in {visible_document_rows(u)}} : TRUE

\* UiState::draw_status_bar: [t, wrote, panic].
draw_status_bar(u, t, b) ==
    LET row == usize_sub(u.size.y, 1)
    IN  IF overflows(b, row) THEN [t |-> t, wrote |-> FALSE, panic |-> TRUE]
        ELSE CHOOSE q \in {[t |-> PrintAt(moved, StatusText),
                             wrote |-> TRUE, panic |-> FALSE] :
                               moved \in {MoveTo(t, 0, as_u16(row.v))}} : TRUE

\* UiState::handle_line.
handle_line(u, t, b, line) ==
    LET index == Len(u.document)
        u1 == [u EXCEPT !.max_line_len = Max(@, CharCount(line)),
                        !.document = Append(@, line)]
        rows == document_pane_rows(u1)
    IN  IF overflows(b, rows) THEN [u |-> u1, t |-> t, wrote |-> FALSE, panic |-> TRUE]
        ELSE IF range_contains(rows.r, index)
        THEN CHOOSE r \in {[u |-> u1, t |-> one.t, wrote |-> TRUE, panic |-> one.panic] :
                              one \in {ui_queue_line(u1, t, b, index)}} : TRUE
        ELSE [u |-> u1, t |-> t, wrote |-> FALSE, panic |-> FALSE]

\* UiState::scroll_down.
ui_scroll_down(u, t, b) ==
    LET rows == document_pane_rows(u)
        sum == usize_add(u.offset.y, range_len(rows.r))
        u1 == [u EXCEPT !.offset.y = @ + 1]
    IN  IF overflows(b, rows) \/ overflows(b, sum)
        THEN [u |-> u, t |-> t, wrote |-> FALSE, panic |-> TRUE]
        ELSE IF Len(u.document) > sum.v
        THEN CHOOSE r \in {[u |-> u1, t |-> re.t, wrote |-> TRUE, panic |-> re.panic] :
                              re \in {redraw_document(u1, t, b)}} : TRUE
        ELSE [u |-> u, t |-> t, wrote |-> FALSE, panic |-> FALSE]

\* UiState::scroll_up.
ui_scroll_up(u, t, b) ==
    LET u1 == [u EXCEPT !.offset.y = @ - 1]
    IN  IF u.offset.y > 0
        THEN CHOOSE r \in {[u |-> u1, t |-> re.t, wrote |-> TRUE, panic |-> re.panic] :
                              re \in {redraw_document(u1, t, b)}} : TRUE
        ELSE [u |-> u, t |-> t, wrote |-> FALSE, panic |-> FALSE]

\* UiState::handle_resize. The terminal has new_size.y rows when the event is
\* handled; Clear(All) is the first thing written.
handle_resize(u, t, b, new_size) ==
    LET u1 == [u EXCEPT !.size = new_size]
        t1 == MoveTo([t EXCEPT !.screen = BlankScreen(new_size.y)], t.cursor.col, t.cursor.row)
    IN  CHOOSE r \in
           {IF bar.panic THEN [u |-> u1, t |-> t1, wrote |-> TRUE, panic |-> TRUE]
            ELSE CHOOSE q \in {[u |-> u1, t |-> re.t, wrote |-> TRUE, panic |-> re.panic] :
                                  re \in {redraw_document(u1, bar.t, b)}} : TRUE
              : bar \in {draw_status_bar(u1, t1, b)}} : TRUE

\* The events of crossterm: ev = [type, code, size]; type "None" is the end of
\* the event stream. Mouse events are not enabled by initialize_terminal.
KeyCodes == {"q", "Q", "j", "k", "?"}
TermSizes == {Vec2(x, y) : x \in 0..MaxCols, y \in 0..MaxRows}
NoSize == Vec2(0, 0)
KeyEvent(code) == [type |-> "Key", code |-> code, size |-> NoSize]
ResizeEvent(size) == [type |-> "Resize", code |-> "", size |-> size]
NoneEvent == [type |-> "None", code |-> "", size |-> NoSize]

\* UiState::handle_event.
handle_event(u, t, b, ev) ==
    LET quit == [u |-> [u EXCEPT !.should_exit = TRUE], t |-> t,
                 wrote |-> FALSE, panic |-> FALSE]
        ignore == [u |-> u, t |-> t, wrote |-> FALSE, panic |-> FALSE]
    IN  CASE ev.type = "None" -> quit
          [] ev.type = "Resize" -> handle_resize(u, t, b, ev.size)
          [] ev.type = "Key" /\ ev.code \in {"q", "Q"} -> quit
          [] ev.type = "Key" /\ ev.code = "j" -> ui_scroll_down(u, t, b)
          [] ev.type = "Key" /\ ev.code = "k" -> ui_scroll_up(u, t, b)
          [] OTHER -> ignore

\* An end of input that is taken for a request to quit.
line_none_quits(u) == [u EXCEPT !.should_exit = TRUE]

\* `if let Some(line) = line? { ... }` when next_line() gave None: nothing is
\* handled.
line_none(u) == u

\* The name an event is recorded under in last_event.
EventName(ev) == IF ev.type = "Key" THEN ev.code ELSE ev.type

----------------------------------------------------------------------------
\* The input.

InputLines == {<<>>, <<"a", "E2", "U3", "a">>}

\* The terminal of a DocumentView under test is taller than any viewport.
ViewTermRows == MaxRows + 1

TtyOriginal == [raw |-> FALSE, alt |-> FALSE, hidden |-> FALSE]
TtyPager == [raw |-> TRUE, alt |-> TRUE, hidden |-> TRUE]

NoReport == [text |-> <<>>, index |-> -1, visible |-> FALSE]
NoView == DocumentView_new(FileDocument_new, Vec2(0, 0))
Term == [screen |-> screen, cursor |-> cursor]

\* Neither stream of the loop's select! holds an item.
NoEventReady == [some |-> FALSE, ev |-> NoneEvent]
NoLineReady == [some |-> FALSE, eof |-> FALSE, text |-> <<>>]
NoReady == [event |-> NoEventReady, line |-> NoLineReady]

----------------------------------------------------------------------------
\* ui() (ui.rs): the controller and its event loop.

\* ui() up to initialize_terminal: terminal::size() gave `size`. The pager is
\* started with the cursor at the top-left; entering the alternate screen
\* blanks the display.
Init ==
    /\ build \in Builds
    /\ pc = "init"
    /\ \E size \in TermSizes :
          /\ ui = UiState_new(size)
          /\ screen = BlankScreen(size.y)
          /\ cursor = [row |-> 0, col |-> 0]
    /\ tty = TtyOriginal
    /\ input = "open"
    /\ last_event = "none"
    /\ drawn = FALSE
    /\ view = NoView
    /\ reported = NoReport
    /\ ready = NoReady

\* UiState::initialize_terminal: enable_raw_mode()?, then execute!(Enter, Hide)?.
initialize_terminal ==
    /\ pc = "init"
    /\ \/ pc' = "loop" /\ tty' = TtyPager
       \/ pc' = "failed" /\ tty' = tty
       \/ pc' = "failed" /\ tty' = [tty EXCEPT !.raw = TRUE]
    /\ UNCHANGED <<build, ui, input, last_event, drawn, view, reported, screen, cursor, ready>>

\* A turn that never checks should_exit.
Turn_no_break(result, name) ==
    \E r \in {result} :
       /\ last_event' = name
       /\ ui' = r.u
       /\ pc' = IF r.panic THEN "panicked" ELSE "loop"
       /\ screen' = r.t.screen /\ cursor' = r.t.cursor
       /\ drawn' = r.wrote
       /\ UNCHANGED <<build, tty, view, reported>>

\* One turn of the loop after its handler gave r: the handler ran to its end
\* (then should_exit is checked), or a write of it failed (`?` returns the
\* error from ui()), or it panicked.
Turn(result, name) ==
    \E r \in {result} :
       /\ last_event' = name
       /\ ui' = r.u
       /\ \/ /\ ~r.panic
             /\ pc' = IF r.u.should_exit THEN "finalize" ELSE "loop"
             /\ screen' = r.t.screen /\ cursor' = r.t.cursor
             /\ drawn' = r.wrote
          \/ /\ r.panic
             /\ pc' = "panicked"
             /\ screen' = r.t.screen /\ cursor' = r.t.cursor
             /\ drawn' = r.wrote
          \/ /\ r.wrote
             /\ pc' = "failed"
             /\ UNCHANGED <<screen, cursor>>
             /\ drawn' = FALSE
       /\ UNCHANGED <<build, tty, view, reported>>

\* event = events.try_next() => ui_state.handle_event(event?)?
HandleKey(code) ==
    /\ pc = "loop"
    /\ Turn(handle_event(ui, Term, build, KeyEvent(code)), code)
    /\ UNCHANGED <<input, ready>>

HandleResize(size) ==
    /\ pc = "loop"
    /\ Turn(handle_event(ui, Term, build, ResizeEvent(size)), "Resize")
    /\ UNCHANGED <<input, ready>>

\* The event stream ended: handle_event(None).
HandleNone ==
    /\ pc = "loop"
    /\ Turn(handle_event(ui, Term, build, NoneEvent), "None")
    /\ UNCHANGED <<input, ready>>

\* line = input.next_line() => if let Some(line) = line? { handle_line(line)? }
HandleLine(line) ==
    /\ pc = "loop"
    /\ input = "open"
    /\ Len(ui.document) < MaxLines
    /\ Turn(handle_line(ui, Term, build, line), "line")
    /\ UNCHANGED <<input, ready>>

\* next_line() gave None: nothing is handled.
LineEof ==
    /\ pc = "loop"
    /\ input' = "eof"
    /\ last_event' = "eof"
    /\ drawn' = FALSE
    /\ ui' = line_none(ui)
    /\ pc' = IF ui'.should_exit THEN "finalize" ELSE "loop"
    /\ UNCHANGED <<build, tty, view, reported, screen, cursor, ready>>

\* `event?` or `line?`: reading the event stream or the input failed.
ReadError ==
    /\ pc = "loop"
    /\ pc' = "failed"
    /\ last_event' = "read_error"
    /\ drawn' = FALSE
    /\ UNCHANGED <<build, ui, tty, input, view, reported, screen, cursor, ready>>

\* UiState::finalize_terminal: execute!(Leave, Show)?, then disable_raw_mode()?.
finalize_terminal ==
    /\ pc = "finalize"
    /\ \/ pc' = "done" /\ tty' = TtyOriginal
       \/ pc' = "failed" /\ tty' = tty
       \/ pc' = "failed" /\ tty' = [tty EXCEPT !.alt = FALSE, !.hidden = FALSE]
    /\ UNCHANGED <<build, ui, input, last_event, drawn, view, reported, screen, cursor, ready>>

Next ==
    \/ initialize_terminal
    \/ \E code \in KeyCodes : HandleKey(code)
    \/ \E size \in TermSizes : HandleResize(size)
    \/ HandleNone
    \/ \E line \in InputLines : HandleLine(line)
    \/ LineEof
    \/ ReadError
    \/ finalize_terminal

Spec == Init /\ [][Next]_vars

----------------------------------------------------------------------------
\* A DocumentView under test: its public operations, called in any order.

\* The part of the state ui() owns, while a DocumentView is under test.
UiIdle ==
    /\ build = "release"
    /\ ui = UiState_new(Vec2(0, 0))
    /\ tty = TtyOriginal
    /\ input = "open"
    /\ ready = NoReady

UiUntouched == UNCHANGED <<build, ui, tty, input, ready>>

\* A navigation operation that gave r = [v, redraw]: redraw() follows the
\* change of the offset.
ViewNav(result, name) ==
    \E r \in {result} :
    /\ pc = "view"
    /\ view' = r.v
    /\ last_event' = name
    /\ drawn' = r.redraw
    /\ \E re \in {IF r.redraw THEN dv_redraw(r.v, Term) ELSE [t |-> Term, ok |-> TRUE]} :
           /\ screen' = re.t.screen /\ cursor' = re.t.cursor
           /\ pc' = IF re.ok THEN "view" ELSE "panicked"
    /\ UNCHANGED reported
    /\ UiUntouched

ViewPanLeft == ViewNav(pan_left(view), "pan_left")
ViewPanRight == ViewNav(pan_right(view), "pan_right")
ViewScrollDown == ViewNav(dv_scroll_down(view), "scroll_down")
ViewScrollUp == ViewNav(dv_scroll_up(view), "scroll_up")
ViewPrevPage == ViewNav(prev_page(view), "prev_page")
ViewNextPage == ViewNav(next_page(view), "next_page")

\* resize(new_size), which writes nothing, and what its caller owes after
\* it: the screen cleared and a full redraw().
ViewResize(new_size) ==
    /\ pc = "view"
    /\ view' = resize(view, new_size)
    /\ last_event' = "resize"
    /\ drawn' = TRUE
    /\ \E re \in {dv_redraw(resize(view, new_size), ClearAll(Term))} :
           /\ screen' = re.t.screen /\ cursor' = re.t.cursor
           /\ pc' = IF re.ok THEN "view" ELSE "panicked"
    /\ UNCHANGED reported
    /\ UiUntouched

\* document().push_line(line), then queue_line_if_visible(index).
ViewPushLine(line) ==
    /\ pc = "view"
    /\ doc_len(view.document) < MaxLines
    /\ \E pushed \in {push_line(view.document, line)} :
       \E q \in {queue_line_if_visible([view EXCEPT !.document = pushed.doc], Term,
                                       pushed.index)} :
           /\ view' = [view EXCEPT !.document = pushed.doc]
           /\ reported' = [text |-> line, index |-> pushed.index, visible |-> q.visible]
           /\ drawn' = q.visible
           /\ screen' = q.t.screen /\ cursor' = q.t.cursor
           /\ pc' = IF q.ok THEN "view" ELSE "panicked"
    /\ last_event' = "push_line"
    /\ UiUntouched

InitViewOver(v) ==
    /\ UiIdle
    /\ pc = "view"
    /\ view = v
    /\ screen = BlankScreen(ViewTermRows)
    /\ cursor = [row |-> 0, col |-> 0]
    /\ last_event = "none"
    /\ drawn = FALSE
    /\ reported = NoReport

InitView ==
    \E size \in TermSizes : InitViewOver(DocumentView_new(FileDocument_new, size))

NextView ==
    \/ ViewPanLeft
    \/ ViewPanRight
    \/ ViewScrollDown
    \/ ViewScrollUp
    \/ ViewPrevPage
    \/ ViewNextPage
    \/ \E size \in TermSizes : ViewResize(size)
    \/ \E line \in InputLines : ViewPushLine(line)

SpecView == InitView /\ [][NextView]_vars

----------------------------------------------------------------------------
\* Documents given whole, and a controller that has read one.

\* The FileDocument holding `lines`: push_line for each, in order.
RECURSIVE DocOf(_)
DocOf(lines) ==
    IF lines = <<>> THEN FileDocument_new
    ELSE push_line(DocOf(SubSeq(lines, 1, Len(lines) - 1)), lines[Len(lines)]).doc

\* The controller after `lines` arrived and no event: handle_line for each, in
\* order, from UiState::new(size) and the terminal t.
RECURSIVE UiAfterLines(_, _, _, _)
UiAfterLines(lines, size, t, b) ==
    IF lines = <<>> THEN [u |-> UiState_new(size), t |-> t, wrote |-> FALSE, panic |-> FALSE]
    ELSE CHOOSE r \in {IF before.panic THEN before
                         ELSE handle_line(before.u, before.t, b, lines[Len(lines)]) :
                          before \in {UiAfterLines(SubSeq(lines, 1, Len(lines) - 1),
                                                   size, t, b)}} : TRUE

InitUiAfterLines(lines, size) ==
    /\ build \in Builds
    /\ \E r \in {UiAfterLines(lines, size,
                              [screen |-> BlankScreen(size.y),
                               cursor |-> [row |-> 0, col |-> 0]], build)} :
          /\ ui = r.u
          /\ screen = r.t.screen /\ cursor = r.t.cursor
          /\ pc = IF r.panic THEN "panicked" ELSE "loop"
    /\ tty = TtyPager
    /\ input = "eof"
    /\ last_event = "line"
    /\ drawn = FALSE
    /\ view = NoView
    /\ reported = NoReport
    /\ ready = NoReady

----------------------------------------------------------------------------
\* Navigation alone: a fixed document in a viewport of a fixed size, either a
\* DocumentView or the controller, from offset (0, 0).

InitNav ==
    \E lines \in SeqsUpTo(InputLines, MaxLines), size \in TermSizes :
       \/ InitViewOver(DocumentView_new(DocOf(lines), size))
       \/ InitUiAfterLines(lines, size)

NextNav ==
    \/ ViewPanLeft
    \/ ViewPanRight
    \/ ViewScrollDown
    \/ ViewScrollUp
    \/ ViewPrevPage
    \/ ViewNextPage
    \/ HandleKey("j")
    \/ HandleKey("k")

SpecNav == InitNav /\ [][NextNav]_vars

----------------------------------------------------------------------------
\* Paging: next_page, again and again, over a document of PageDocLen lines.

\* The FileDocument after n empty lines were pushed.
EmptyLines(n) == [lines |-> [i \in 1..n |-> <<>>], max_line_len |-> 0]

InitPage ==
    \E rows \in 1..MaxPageRows :
       InitViewOver(DocumentView_new(EmptyLines(PageDocLen), Vec2(1, rows)))

SpecPage == InitPage /\ [][ViewNextPage]_vars /\ WF_vars(ViewNextPage)

----------------------------------------------------------------------------
\* Column slicing: a line, and under it a line of MaxLineLen characters, in a
\* viewport one row high panned to any column; scrolling down and up again
\* draws the long line and then the line over it.

Filler == [i \in 1..MaxLineLen |-> "a"]

InitSlice ==
    \E line \in SeqsUpTo(Chars, MaxLineLen), cols \in 0..MaxSliceCols :
       \/ \E x \in 0..MaxLineLen :
             InitViewOver([document |-> DocOf(<<line, Filler>>),
                           offset |-> Vec2(x, 0), size |-> Vec2(cols, 1)])
       \/ InitUiAfterLines(<<line, Filler>>, Vec2(cols, 3))

NextSlice ==
    \/ ViewScrollDown
    \/ ViewScrollUp
    \/ HandleKey("j")
    \/ HandleKey("k")

SpecSlice == InitSlice /\ [][NextSlice]_vars

----------------------------------------------------------------------------
\* The merge of the two streams: ui() with the items each stream holds ready.
\* The terminal holds at most one event ready, the line reader one line (or
\* the end of the input, which stays ready once reached: next_line() gives
\* None again on every call).

\* The keys pressed, and the sizes the terminal takes, in the merge.
MergeKeys == {"q", "j", "?"}
MergeSizes == {Vec2(2, 3), Vec2(1, 1)}
\* The lines the input produces in the merge.
MergeLines == {<<"a", "E2", "U3", "a">>}

\* A select that polls the event stream first, whenever it is ready.
select_events_first(r) ==
    IF r.event.some THEN {"event"}
    ELSE IF r.line.some THEN {"line"} ELSE {}

\* select!: the branches it may run, given what is ready. It polls the
\* branches in a pseudo-random order and runs the first that is ready.
select(r) ==
    {b \in {"event", "line"} : (b = "event" /\ r.event.some) \/ (b = "line" /\ r.line.some)}

InitMerge ==
    /\ build \in Builds
    /\ pc = "init"
    /\ \E size \in MergeSizes :
          /\ ui = UiState_new(size)
          /\ screen = BlankScreen(size.y)
          /\ cursor = [row |-> 0, col |-> 0]
    /\ tty = TtyOriginal
    /\ input = "open"
    /\ last_event = "none"
    /\ drawn = FALSE
    /\ view = NoView
    /\ reported = NoReport
    /\ ready = NoReady

\* The user presses a key: the event stream has it ready.
KeyPressed(code) ==
    /\ pc \in {"init", "loop"}
    /\ ~ready.event.some
    /\ ready' = [ready EXCEPT !.event = [some |-> TRUE, ev |-> KeyEvent(code)]]
    /\ UNCHANGED <<build, pc, ui, tty, input, last_event, drawn, view, reported, screen, cursor>>

\* The terminal is resized: the event stream has the Resize event ready.
TerminalResized(size) ==
    /\ pc \in {"init", "loop"}
    /\ ~ready.event.some
    /\ ready' = [ready EXCEPT !.event = [some |-> TRUE, ev |-> ResizeEvent(size)]]
    /\ UNCHANGED <<build, pc, ui, tty, input, last_event, drawn, view, reported, screen, cursor>>

\* The input has another line: the line reader has it ready.
LineProduced(line) ==
    /\ pc \in {"init", "loop"}
    /\ input = "open"
    /\ ~ready.line.some
    /\ Len(ui.document) < MaxLines
    /\ ready' = [ready EXCEPT !.line = [some |-> TRUE, eof |-> FALSE, text |-> line]]
    /\ UNCHANGED <<build, pc, ui, tty, input, last_event, drawn, view, reported, screen, cursor>>

\* The input ends.
InputEnds ==
    /\ pc \in {"init", "loop"}
    /\ input = "open"
    /\ ~ready.line.some
    /\ ready' = [ready EXCEPT !.line = [some |-> TRUE, eof |-> TRUE, text |-> <<>>]]
    /\ UNCHANGED <<build, pc, ui, tty, input, last_event, drawn, view, reported, screen, cursor>>

\* select! runs the event branch: handle_event(event?)?, then the check of
\* should_exit.
SelectEvent ==
    /\ pc = "loop"
    /\ "event" \in select(ready)
    /\ Turn(handle_event(ui, Term, build, ready.event.ev), EventName(ready.event.ev))
    /\ ready' = [ready EXCEPT !.event = NoEventReady]
    /\ UNCHANGED input

\* select! runs the line branch: handle_line(line)? for Some(line), nothing
\* for None; then the check of should_exit.
SelectLine ==
    /\ pc = "loop"
    /\ "line" \in select(ready)
    /\ IF ready.line.eof
       THEN /\ input' = "eof"
            /\ last_event' = "eof"
            /\ drawn' = FALSE
            /\ ui' = line_none(ui)
            /\ pc' = IF ui'.should_exit THEN "finalize" ELSE "loop"
            /\ UNCHANGED <<build, tty, view, reported, screen, cursor, ready>>
       ELSE /\ Turn(handle_line(ui, Term, build, ready.line.text), "line")
            /\ ready' = [ready EXCEPT !.line = NoLineReady]
            /\ UNCHANGED input

NextMerge ==
    \/ initialize_terminal
    \/ \E code \in MergeKeys : KeyPressed(code)
    \/ \E size \in MergeSizes : TerminalResized(size)
    \/ \E line \in MergeLines : LineProduced(line)
    \/ InputEnds
    \/ SelectEvent
    \/ SelectLine
    \/ finalize_terminal

\* select! picks among the ready branches at random: a branch that stays ready
\* is run in the end.
SpecMerge ==
    InitMerge /\ [][NextMerge]_vars /\ WF_vars(SelectEvent) /\ WF_vars(SelectLine)

----------------------------------------------------------------------------
\* Key dispatch: the controller, after it read a document, given any key.

\* KeyCode::Char(c) is c; " " is the space bar; "x" is a key with no binding.
DispatchKeys == {"h", "l", "j", "k", " ", "PageDown", "PageUp", "?", "q", "Q", "x"}

\* The terminals with room for a document pane: a row over the status bar
\* and its bottom line, a column beside the last one.
PaneSizes == {size \in TermSizes : size.y >= 2 /\ size.x >= 1}

InitKeys ==
    \E lines \in SeqsUpTo(InputLines, MaxLines), size \in PaneSizes :
       InitUiAfterLines(lines, size)

NextKeys ==
    \/ \E code \in DispatchKeys : HandleKey(code)
    \/ finalize_terminal

SpecKeys == InitKeys /\ [][NextKeys]_vars

----------------------------------------------------------------------------
\* The streaming document: lines pushed into a FileDocument under a
\* DocumentView, or read by the controller, between navigation.

NextPush ==
    \/ \E line \in InputLines : ViewPushLine(line)
    \/ ViewScrollDown
    \/ ViewNextPage
    \/ ViewPrevPage
    \/ initialize_terminal
    \/ \E line \in InputLines : LineProduced(line)
    \/ InputEnds
    \/ SelectLine
    \/ HandleKey("j")
    \/ HandleKey("k")

SpecPush == (InitView \/ Init) /\ [][NextPush]_vars

----------------------------------------------------------------------------
\* Properties.

\* The viewport of the controller, as the specification means it: the
\* document pane, size.y - 2 rows by size.x - 1 columns.
PaneRows(u) == IF u.size.y >= 2 THEN u.size.y - 2 ELSE 0
PaneCols(u) == IF u.size.x >= 1 THEN u.size.x - 1 ELSE 0

OffsetInBounds(offset, len, width, rows, cols) ==
    /\ 0 <= offset.y /\ offset.y <= Max(0, len - rows)
    /\ 0 <= offset.x /\ offset.x <= Max(0, width - cols)

\* C1: navigation alone (a fixed size, a fixed document, from offset (0, 0))
\* keeps 0 <= offset.y <= max(0, len - size.y) and
\* 0 <= offset.x <= max(0, max_line_len - size.x), in a DocumentView and in
\* the controller. Checked under SpecNav.
C1_NavigationKeepsOffsetInBounds ==
    /\ OffsetInBounds(view.offset, doc_len(view.document), max_line_len(view.document),
                      view.size.y, view.size.x)
    /\ OffsetInBounds(ui.offset, Len(ui.document), ui.max_line_len,
                      PaneRows(ui), PaneCols(ui))

\* A DocumentView scrolled to the last screen and panned to the right edge.
C1_Witness ==
    /\ view.offset.y > 0 /\ view.offset.y = doc_len(view.document) - view.size.y
    /\ view.offset.x > 0 /\ view.offset.x = max_line_len(view.document) - view.size.x

\* C2: after any operation (navigation, line arrival, resize), a document of
\* at least size.y lines has offset.y <= len - size.y, and
\* offset.x <= max(0, max_line_len - size.x). Checked under SpecView.
C2_OffsetInBoundsAfterAnyOperation ==
    /\ doc_len(view.document) >= view.size.y
          => view.offset.y <= doc_len(view.document) - view.size.y
    /\ view.offset.x <= Max(0, max_line_len(view.document) - view.size.x)

\* C3: in the controller, scroll_up at offset.y = 0 leaves the offset alone and
\* writes nothing, scroll_down with nothing below the pane leaves the offset
\* alone, and both return success (the loop goes on). Checked under Spec.
C3_GuardedNavigationIsNoOp ==
    [][/\ (pc = "loop" /\ last_event' = "k" /\ ui.offset.y = 0)
             => (ui'.offset = ui.offset /\ ~drawn' /\ screen' = screen /\ pc' = "loop")
       /\ (pc = "loop" /\ last_event' = "j"
                /\ Len(ui.document) <= ui.offset.y + PaneRows(ui))
             => (ui'.offset = ui.offset /\ pc' = "loop")]_vars

\* C4: over PageDocLen (100) lines in a viewport of PageRows (10) rows,
\* repeated next_page never takes offset.y past PageDocLen - PageRows (90),
\* reaches it, and stays there. Checked under SpecPage.
C4_PageClamp ==
    /\ [](view.size.y = PageRows => view.offset.y <= PageDocLen - PageRows)
    /\ <>[](view.size.y = PageRows => view.offset.y = PageDocLen - PageRows)

\* One more next_page at the last screen did nothing.
C4_Witness ==
    /\ view.size.y = PageRows /\ view.offset.y = PageDocLen - PageRows
    /\ last_event = "next_page" /\ ~drawn

\* C5: a line that arrives at index k is drawn iff
\* offset.y <= k < offset.y + pane rows, in every state of the controller
\* (stated for terminals of two rows or more). Checked under Spec.
C5_VisibilityGate ==
    [][(pc = "loop" /\ pc' = "loop" /\ last_event' = "line" /\ ui.size.y >= 2)
          => (drawn' <=> (/\ ui.offset.y <= Len(ui.document)
                          /\ Len(ui.document) < ui.offset.y + PaneRows(ui)))]_vars

\* C6: queue_line shows exactly the characters [offset.x, min(offset.x +
\* size.x, count)) of the line: after scroll_up redrew line 0 on row 0, the
\* row holds that slice. Checked under SpecSlice.
C6_ColumnSlicing ==
    (pc = "view" /\ last_event = "scroll_up" /\ drawn)
       => screen[1] = SubSeq(view.document.lines[1], view.offset.x + 1,
                             Min(view.offset.x + view.size.x,
                                 CharCount(view.document.lines[1])))

\* C7: a line of offset.x characters or fewer: queue_line prints nothing,
\* clears the row (nothing of the longer line shown there before is left),
\* moves the cursor to the next row, and does not panic. Checked under
\* SpecSlice, where scroll_up redraws line 0 on the row that showed the line
\* of MaxLineLen characters.
C7_ShortLineClearsRow ==
    /\ (pc = "view" /\ last_event = "scroll_up" /\ drawn
           /\ CharCount(view.document.lines[1]) <= view.offset.x)
          => (screen[1] = <<>> /\ cursor = [row |-> 1, col |-> 0])
    /\ (pc = "loop" /\ last_event = "k" /\ drawn /\ ui.document[1] = <<>>)
          => (screen[1] = <<>> /\ cursor = [row |-> 1, col |-> 0])
    /\ (pc = "panicked" /\ last_event = "k") => ui.document[1] # <<>>
    /\ view # NoView => pc # "panicked"

\* A line of exactly offset.x characters was drawn over the longer one.
C7_Witness ==
    /\ pc = "view" /\ last_event = "scroll_up" /\ drawn
    /\ view.offset.x = 2 /\ view.size.x = 3
    /\ CharCount(view.document.lines[1]) = 2
    /\ screen[1] = <<>>

\* C8: a quit key sets the exit flag and ends the loop at once; once the flag
\* is set the loop handles nothing more: document, offset and size stay as
\* they are. Checked under Spec.
C8_QuitEndsTheLoop ==
    /\ [](ui.should_exit => pc # "loop")
    /\ [][(pc = "loop" /\ last_event' \in {"q", "Q"})
             => (ui'.should_exit /\ pc' = "finalize")]_vars
    /\ [][ui.should_exit => ui' = ui]_vars

\* The pager quit, scrolled down in a document it had read.
C8_Witness ==
    /\ pc = "done" /\ ui.should_exit /\ last_event = "q"
    /\ ui.offset.y > 0

\* C9: a quit key right after the help key dismisses the help overlay and
\* does not set the exit flag. Checked under Spec.
C9_QuitAfterHelpDismissesOverlay ==
    [][(pc = "loop" /\ last_event = "?" /\ last_event' \in {"q", "Q"})
          => ~ui'.should_exit]_vars

\* C10: however ui() returns, the terminal is back in its original state:
\* alternate screen left, cursor shown, raw mode off. Checked under Spec.
C10_TerminalRestoredOnEveryPath ==
    pc \in {"done", "failed"} => tty = TtyOriginal

\* C11: while the loop runs, an event that is ready is handled in the end
\* (a quit key ends the loop) whatever lines the input keeps producing, and a
\* line that is ready is stored in the end whatever events keep arriving;
\* the branch that runs handles its one item to the end (a line is appended
\* as it was read, an event is consumed) and the other stream keeps what it
\* holds. Checked under SpecMerge.
C11_NoStarvationInTheMerge ==
    /\ (pc = "loop" /\ ready.event.some) ~> (~ready.event.some \/ pc # "loop")
    /\ (pc = "loop" /\ ready.event.some /\ ready.event.ev.code \in {"q", "Q"})
          ~> (pc # "loop")
    /\ (pc = "loop" /\ ready.line.some /\ ~ready.line.eof)
          ~> (~ready.line.some \/ pc # "loop")
    /\ [][(pc = "loop" /\ ready.line.some /\ ~ready'.line.some)
             => (/\ ui'.document = Append(ui.document, ready.line.text)
                 /\ ready'.event = ready.event)]_vars
    /\ [][(pc = "loop" /\ ready.event.some /\ ~ready'.event.some)
             => (/\ last_event' = EventName(ready.event.ev)
                 /\ ready'.line = ready.line /\ ui'.document = ui.document)]_vars

\* A line was stored while a key was ready, and the key was handled after it.
C11_Witness ==
    /\ pc = "loop" /\ last_event = "j" /\ ui.offset.y = 1
    /\ Len(ui.document) = 2 /\ ready.line.some /\ ~ready.line.eof

\* C12: the end of the input is no error and no request to quit: the step
\* that finds it leaves the controller (document, offset, size, exit flag) and
\* the screen as they are and the loop running; after it no line is added,
\* and an event that is ready (a key, a resize) is still handled in the end, a
\* quit key still ends the loop. Checked under SpecMerge.
C12_EndOfInputIsNormal ==
    /\ [][(pc = "loop" /\ last_event' = "eof")
             => (/\ ui' = ui /\ ~ui'.should_exit /\ pc' = "loop"
                 /\ screen' = screen /\ tty' = tty)]_vars
    /\ [][input = "eof" => (input' = "eof" /\ ui'.document = ui.document)]_vars
    /\ (pc = "loop" /\ input = "eof" /\ ready.event.some)
          ~> (~ready.event.some \/ pc # "loop")
    /\ (pc = "loop" /\ input = "eof" /\ ready.event.some
             /\ ready.event.ev.code \in {"q", "Q"})
          ~> (pc \in {"finalize", "done", "failed", "panicked"})

\* After the end of the input: the terminal was resized, then the pager
\* scrolled down, and a quit key is ready.
C12_Witness ==
    /\ pc = "loop" /\ input = "eof" /\ last_event = "j" /\ ui.offset.y > 0
    /\ ready.event.some /\ ready.event.ev.code = "q"

\* C13: every key of the key surface reaches its operation: whenever the
\* operation's guard holds, 'h' pans left and 'l' pans right by one column,
\* 'j' scrolls down and 'k' up by one line, space and page-down move down a
\* page, page-up moves up a page, 'q' and 'Q' set the exit flag; a key with
\* no binding changes nothing. Stated for the turns whose handler returned
\* success. Checked under SpecKeys.
C13_KeyDispatch ==
    [][(pc = "loop" /\ pc' \in {"loop", "finalize"}) =>
          /\ (last_event' = "h" /\ ui.offset.x > 0)
                => ui'.offset = Vec2(ui.offset.x - 1, ui.offset.y)
          /\ (last_event' = "l" /\ ui.max_line_len > ui.offset.x + PaneCols(ui))
                => ui'.offset = Vec2(ui.offset.x + 1, ui.offset.y)
          /\ (last_event' = "j" /\ Len(ui.document) > ui.offset.y + PaneRows(ui))
                => ui'.offset = Vec2(ui.offset.x, ui.offset.y + 1)
          /\ (last_event' = "k" /\ ui.offset.y > 0)
                => ui'.offset = Vec2(ui.offset.x, ui.offset.y - 1)
          /\ (last_event' \in {" ", "PageDown"}
                 /\ Len(ui.document) > ui.offset.y + PaneRows(ui))
                => (ui'.offset.y > ui.offset.y /\ ui'.offset.x = ui.offset.x)
          /\ (last_event' = "PageUp" /\ ui.offset.y > 0)
                => (ui'.offset.y < ui.offset.y /\ ui'.offset.x = ui.offset.x)
          /\ (last_event' \in {"q", "Q"}) => ui'.should_exit
          /\ (last_event' = "x") => (ui' = ui /\ screen' = screen)]_vars

\* The longest of `lines`, in characters.
MaxCharCount(lines) ==
    IF lines = <<>> THEN 0
    ELSE CHOOSE n \in {CharCount(lines[i]) : i \in DOMAIN lines} :
            \A i \in DOMAIN lines : CharCount(lines[i]) <= n

IsPrefix(s, t) == Len(s) <= Len(t) /\ SubSeq(t, 1, Len(s)) = s

\* C14: the document is append-only. A push appends exactly the text given,
\* as the last line, and returns the number of lines pushed before it; nothing
\* else changes the lines (each state's lines are a prefix of the next
\* state's); max_line_len is the largest character count of the lines pushed
\* (not their byte length) and never decreases. For FileDocument::push_line
\* and for UiState::handle_line. Checked under SpecPush.
C14_AppendOnlyDocument ==
    /\ [](/\ max_line_len(view.document) = MaxCharCount(view.document.lines)
          /\ ui.max_line_len = MaxCharCount(ui.document))
    /\ [][/\ IsPrefix(view.document.lines, view'.document.lines)
          /\ IsPrefix(ui.document, ui'.document)
          /\ max_line_len(view'.document) >= max_line_len(view.document)
          /\ ui'.max_line_len >= ui.max_line_len]_vars
    /\ [][IF pc = "view" /\ last_event' = "push_line"
          THEN /\ view'.document.lines = Append(view.document.lines, reported'.text)
               /\ reported'.index = doc_len(view.document)
               /\ doc_len(view'.document) = reported'.index + 1
          ELSE view'.document = view.document]_vars
    /\ [][IF pc = "loop" /\ ready.line.some /\ ~ready'.line.some
          THEN ui'.document = Append(ui.document, ready.line.text)
          ELSE ui'.document = ui.document /\ ui'.max_line_len = ui.max_line_len]_vars

\* A short line was pushed after a line of four characters in seven bytes:
\* it got index 1 and the maximum stayed 4.
C14_Witness ==
    /\ pc = "view" /\ last_event = "push_line"
    /\ reported = [text |-> <<>>, index |-> 1, visible |-> TRUE]
    /\ view.document.lines = <<(<<"a", "E2", "U3", "a">>), <<>>>>
    /\ max_line_len(view.document) = 4

\* C15: next_page on a document no longer than one screen
\* (document.len() <= size.y, the empty document included), at offset.y = 0,
\* is a no-op: offset.y stays 0, no redraw is issued (nothing is written),
\* and nothing panics or wraps. Checked under SpecView.
C15_NextPageOnShortDocumentIsNoOp ==
    [][(/\ pc = "view" /\ last_event' = "next_page"
        /\ doc_len(view.document) <= view.size.y /\ view.offset.y = 0)
          => (/\ view'.offset.y = 0 /\ ~drawn'
              /\ screen' = screen /\ cursor' = cursor /\ pc' = "view")]_vars

\* C20: paging makes progress for every viewport height: a next_page with
\* content left below the window (document.len() > offset.y + size.y)
\* strictly increases offset.y, and a prev_page at offset.y > 0 strictly
\* decreases it, by min(size.y / 2, offset.y). Checked under SpecView.
C20_PagingMakesProgress ==
    [][/\ (/\ pc = "view" /\ last_event' = "next_page"
            /\ doc_len(view.document) > view.offset.y + view.size.y)
              => view'.offset.y > view.offset.y
       /\ (pc = "view" /\ last_event' = "prev_page" /\ view.offset.y > 0)
              => (/\ view'.offset.y = view.offset.y - Min(view.size.y \div 2, view.offset.y)
                  /\ view'.offset.y < view.offset.y)]_vars

\* C16: a handler whose write to the terminal fails (ui() returns the error)
\* leaves the controller as it was: document, offset and size are not
\* changed when the screen was not updated. Checked under Spec.
C16_HandlerAtomicUnderIoFailure ==
    [][(pc = "loop" /\ pc' = "failed") => (ui' = ui /\ screen' = screen)]_vars

\* What the document pane shows after a full redraw of the controller's
\* state on a cleared screen: redraw_document from the top-left.
FullRedraw ==
    redraw_document(ui, [screen |-> BlankScreen(ui.size.y),
                         cursor |-> [row |-> 0, col |-> 0]], build).t.screen

\* C17: after every handled event (line arrival, scroll key, resize), in any
\* order, each row of the document pane shows what a full redraw would show
\* on it at that moment: line k of [offset.y, min(offset.y + pane rows,
\* document.len())) on row k - offset.y, and nothing on the rows below.
\* Checked under Spec.
C17_IncrementalDrawEqualsFullRedraw ==
    (pc = "loop" /\ last_event \in {"line", "j", "k", "Resize"})
       => \A r \in 1..PaneRows(ui) : screen[r] = FullRedraw[r]

\* C18: in every state the controller reaches by navigation, line arrival and
\* resize, offset.y <= document.len(), and every index redraw_document passes
\* to queue_line (those of visible_document_rows) is below document.len().
\* Checked under Spec.
C18_NoOutOfRangeLineAccess ==
    pc \in {"loop", "finalize", "done"}
       => /\ ui.offset.y <= Len(ui.document)
          /\ \A y \in 0..(Len(ui.document) + MaxRows) :
                range_contains(visible_document_rows(ui).r, y) => y < Len(ui.document)

\* C19: for every terminal size, rows below 2 and 0 columns included, no
\* subtraction of the pane geometry underflows in a handler: a line arrival
\* and a scroll-down key evaluate size.y - 2, a resize evaluates size.y - 1
\* and offset.y + size.y - 2, and none of them wraps or panics. Checked
\* under Spec.
C19_PaneGeometryNeverNegative ==
    [][/\ (pc = "loop" /\ last_event' \in {"line", "j"})
             => (~document_pane_rows(ui').ovf /\ pc' # "panicked")
       /\ (pc = "loop" /\ last_event' = "Resize")
             => (/\ ~usize_sub(ui'.size.y, 1).ovf
                 /\ ~visible_document_rows(ui').ovf
                 /\ pc' # "panicked")]_vars

====
